---- MODULE Spec2Model ----
(***************************************************************************)
(* Model of RAGPipeline (src/rag_pipeline.py): document ingestion into a   *)
(* vector index, the retrieval chain, the bounded conversation memory and  *)
(* the pipeline life cycle.                                                *)
(*                                                                         *)
(* Python None is the empty sequence and an object reference is a          *)
(* one-element sequence, so that `x is None` reads x = None.               *)
(***************************************************************************)
EXTENDS Integers, Sequences, FiniteSets

\* ---------------------------------------------------------------- bounds
MaxAppends == 4    \* exchanges appended in a run of SpecMemory
MaxQueries == 1    \* exchanges appended in a run of Spec
MaxCap == 2        \* largest capacity set_capacity is called with
MaxFiles == 2      \* files in one upload

\* ------------------------------------------------------ program constants
DefaultMaxMemory == 20
RetrieverK == 4
HistoryWindow == 5

\* ------------------------------------------------------------ input sets
Filenames == {"a.txt", "b.pdf"}
\* what loading one uploaded file does: the loader raises, or returns one
\* document, which the splitter keeps as one chunk
LoadOutcomes == {"raises", "text"}
Questions == {"q1", "q2"}
Answers == {"answer"}
Errors == {"timeout"}
CapInputs == (0 - 1) .. MaxCap

None == <<>>
Some(x) == <<x>>

Min(a, b) == IF a < b THEN a ELSE b
Max(a, b) == IF a > b THEN a ELSE b

VARIABLES vectorstore,   \* self.vectorstore: None or Some(sequence of chunks)
    rag_chain,         \* self.rag_chain: None or Some([retriever |-> index])
    documents_loaded,  \* self.documents_loaded
    memory,            \* self.memory
    max_memory,        \* self.max_memory
    clock,             \* datetime.datetime.now(), one tick per exchange
    appended,          \* history: exchanges appended to the log since the last clear/reset
    ret,               \* the last call: operation, arguments, outcome
    pc,                \* position of the call in flight, "idle" between calls
    local,             \* local variables of the call in flight
    frames             \* the query in flight in each thread that serves queries

pipeline == <<vectorstore, rag_chain, documents_loaded, memory, max_memory>>
vars == <<vectorstore, rag_chain, documents_loaded, memory, max_memory,
          clock, appended, ret, pc, local, frames>>

\* ------------------------------------------------------------ call record
NoLocal == [documents |-> <<>>, processed_files |-> <<>>, errors |-> <<>>,
            chunks |-> <<>>]

\* what a caller observes of a call: the exception raised ("" for none),
\* the value returned, and the chat history the chain was given
Call(op, raised, result, chat_history) ==
    [op |-> op, raised |-> raised, result |-> result, chat_history |-> chat_history]

NoCall == Call("init", "", None, None)

\* the threads that serve queries, and the frame of a query in flight: where
\* it is, its question, and what the chain returned to it
Threads == {"t1"}

Frame(at, question, out, chat_history) ==
    [pc |-> at, question |-> question, out |-> out, chat_history |-> chat_history]

NoFrame == Frame("idle", "", None, None)

\* the thread that calls query_with_memory_context(question, use_memory=False)
\* while the threads above serve queries, and its frame: the frame of the
\* query it calls at line 226, with the local old_memory of line 224 and the
\* result of line 226
NoMemoryThread == "t2"

AllThreads == Threads \cup {NoMemoryThread}

NoMemoryFrame(at, question, old_memory) ==
    [pc |-> at, question |-> question, out |-> None, chat_history |-> None,
     old_memory |-> old_memory, result |-> None]

\* ------------------------------------------------------------ sequences
RECURSIVE SeqsUpTo(_, _)
SeqsUpTo(S, n) ==
    IF n = 0 THEN {<<>>}
    ELSE LET shorter == SeqsUpTo(S, n - 1)
         IN  shorter \cup {Append(s, x) : s \in {t \in shorter : Len(t) = n - 1}, x \in S}

Range(s) == {s[i] : i \in 1 .. Len(s)}

\* the orders list(set(...)) can come out in
Orderings(S) ==
    {s \in SeqsUpTo(S, Cardinality(S)) : Len(s) = Cardinality(S) /\ Range(s) = S}

\* Python s[start:] for any integer start
SliceFrom(s, start) ==
    LET from == IF start < 0 THEN Max(Len(s) + start, 0) ELSE Min(start, Len(s))
    IN  SubSeq(s, from + 1, Len(s))

\* ------------------------------------------------------------- ingestion
Ext(filename) == IF filename = "b.pdf" THEN "pdf" ELSE "txt"

\* the uploads tried: a text file that TextLoader reads or cannot decode,
\* and a one-page PDF that PyPDFLoader reads
LoadOutcomesOf(filename) ==
    IF Ext(filename) = "pdf" THEN LoadOutcomes \ {"raises"} ELSE LoadOutcomes

UploadFiles ==
    UNION {[filename : {f}, load : LoadOutcomesOf(f)] : f \in Filenames}

ChunksOf(load) == IF load = "text" THEN 1 ELSE 0

\* the documents one file loads into, each tagged with the file's name
LoadFile(file) ==
    <<[filename |-> file.filename, nchunks |-> ChunksOf(file.load)]>>

\* a loop that stops at the first file that cannot be loaded
RECURSIVE DecodeAbortsOnError(_, _)
DecodeAbortsOnError(files, acc) ==
    IF files = <<>> THEN acc
    ELSE LET file == Head(files)
         IN  IF file.load = "raises"
             THEN [acc EXCEPT !.errors =
                       Append(@, [prefix |-> "Error with ", filename |-> file.filename])]
             ELSE DecodeAbortsOnError(Tail(files),
                         [acc EXCEPT !.documents = @ \o LoadFile(file),
                                     !.processed_files = Append(@, file.filename)])

\* the loop over the uploaded files
RECURSIVE Decode(_, _)
Decode(files, acc) ==
    IF files = <<>> THEN acc
    ELSE LET file == Head(files)
         IN  IF file.load = "raises"
             THEN Decode(Tail(files),
                         [acc EXCEPT !.errors =
                              Append(@, [prefix |-> "Error with ", filename |-> file.filename])])
             ELSE Decode(Tail(files),
                         [acc EXCEPT !.documents = @ \o LoadFile(file),
                                     !.processed_files = Append(@, file.filename)])

\* self.text_splitter.split_documents: the chunks of every document, in
\* order, each carrying its document's metadata
RECURSIVE SplitDocuments(_)
SplitDocuments(documents) ==
    IF documents = <<>> THEN <<>>
    ELSE LET doc == Head(documents)
         IN  [i \in 1 .. doc.nchunks |-> [filename |-> doc.filename]]
             \o SplitDocuments(Tail(documents))

\* FAISS.from_documents embeds every chunk: it returns the index or raises
BuildOutcomes == {"ok", "index_raises"}

BuildChain(index) == [retriever |-> index]

IngestResult(d, chunks) ==
    [processed_files |-> d.processed_files, total_chunks |-> Len(chunks),
     errors |-> d.errors, success |-> TRUE]

NoDocumentsProcessed == "ValueError: No documents processed"
IndexBuildFailed == "Exception: index build"

\* an ingest that drops the loaded corpus before it looks at the upload
IngestDocumentsDropsCorpusFirst(files, build) ==
    /\ pc = "idle"
    /\ LET d == Decode(files, NoLocal)
           chunks == SplitDocuments(d.documents)
       IN  IF d.documents = <<>>
           THEN /\ ret' = Call("ingest", NoDocumentsProcessed, None, None)
                /\ vectorstore' = None
                /\ rag_chain' = None
                /\ documents_loaded' = FALSE
                /\ UNCHANGED <<memory, max_memory>>
           ELSE IF build = "index_raises"
           THEN /\ ret' = Call("ingest", IndexBuildFailed, None, None)
                /\ UNCHANGED pipeline
           ELSE /\ vectorstore' = Some(chunks)
                /\ rag_chain' = Some(BuildChain(chunks))
                /\ documents_loaded' = TRUE
                /\ ret' = Call("ingest", "", Some(IngestResult(d, chunks)), None)
                /\ UNCHANGED <<memory, max_memory>>
    /\ UNCHANGED <<clock, appended, pc, local, frames>>

\* an ingest that adds the new chunks to the index it finds
IngestDocumentsMerges(files, build) ==
    /\ pc = "idle"
    /\ LET d == Decode(files, NoLocal)
           chunks == SplitDocuments(d.documents)
           index == (IF vectorstore = None THEN <<>> ELSE vectorstore[1]) \o chunks
       IN  IF d.documents = <<>>
           THEN /\ ret' = Call("ingest", NoDocumentsProcessed, None, None)
                /\ UNCHANGED pipeline
           ELSE IF build = "index_raises"
           THEN /\ ret' = Call("ingest", IndexBuildFailed, None, None)
                /\ UNCHANGED pipeline
           ELSE /\ vectorstore' = Some(index)
                /\ rag_chain' = Some(BuildChain(index))
                /\ documents_loaded' = TRUE
                /\ ret' = Call("ingest", "", Some(IngestResult(d, chunks)), None)
                /\ UNCHANGED <<memory, max_memory>>
    /\ UNCHANGED <<clock, appended, pc, local, frames>>

\* an ingest that starts a new conversation with the new corpus
IngestDocumentsClearsMemory(files, build) ==
    /\ pc = "idle"
    /\ LET d == Decode(files, NoLocal)
           chunks == SplitDocuments(d.documents)
       IN  IF d.documents = <<>>
           THEN /\ ret' = Call("ingest", NoDocumentsProcessed, None, None)
                /\ UNCHANGED pipeline
           ELSE IF build = "index_raises"
           THEN /\ ret' = Call("ingest", IndexBuildFailed, None, None)
                /\ UNCHANGED pipeline
           ELSE /\ vectorstore' = Some(chunks)
                /\ rag_chain' = Some(BuildChain(chunks))
                /\ documents_loaded' = TRUE
                /\ ret' = Call("ingest", "", Some(IngestResult(d, chunks)), None)
                /\ memory' = <<>>
                /\ UNCHANGED max_memory
    /\ UNCHANGED <<clock, appended, pc, local, frames>>

IngestDocuments(files, build) ==
    /\ pc = "idle"
    /\ LET d == Decode(files, NoLocal)
           chunks == SplitDocuments(d.documents)
       IN  IF d.documents = <<>>
           THEN /\ ret' = Call("ingest", NoDocumentsProcessed, None, None)
                /\ UNCHANGED pipeline
           ELSE IF build = "index_raises"
           THEN /\ ret' = Call("ingest", IndexBuildFailed, None, None)
                /\ UNCHANGED pipeline
           ELSE /\ vectorstore' = Some(chunks)
                /\ rag_chain' = Some(BuildChain(chunks))
                /\ documents_loaded' = TRUE
                /\ ret' = Call("ingest", "", Some(IngestResult(d, chunks)), None)
                /\ UNCHANGED <<memory, max_memory>>
    /\ UNCHANGED <<clock, appended, pc, local, frames>>

\* the uploads tried: every batch of at most MaxFiles files
Batches == SeqsUpTo(UploadFiles, MaxFiles)

\* the index is built only when there is a chunk to embed
Ingest ==
    \E files \in Batches :
        \E build \in IF SplitDocuments(Decode(files, NoLocal).documents) = <<>>
                      THEN {"index_raises"} ELSE BuildOutcomes :
            IngestDocuments(files, build)

\* a text file that holds no text: TextLoader returns one document, which
\* the splitter cuts into no chunk
BlankFile == [filename |-> "a.txt", load |-> "blank"]

\* the uploads tried for ingestion: every batch, and every batch that ends
\* with the blank file
IngestBatches ==
    Batches \cup {Append(files, BlankFile) : files \in SeqsUpTo(UploadFiles, MaxFiles - 1)}

\* FAISS.from_documents raises on an empty list of chunks
IngestAny ==
    \E files \in IngestBatches :
        \E build \in IF SplitDocuments(Decode(files, NoLocal).documents) = <<>>
                      THEN {"index_raises"} ELSE BuildOutcomes :
            IngestDocuments(files, build)

\* the exchange _add_to_memory creates for a log that now holds mem
NewExchange(mem, question, response, sources, now) ==
    [timestamp |-> now, question |-> question, response |-> response,
     sources |-> sources, exchange_id |-> Len(mem) + 1]

\* a trim that keeps the oldest exchanges instead of the newest
AddToMemoryKeepsOldest(mem, capacity, question, response, sources, now) ==
    LET grown == Append(mem, NewExchange(mem, question, response, sources, now))
    IN  IF Len(grown) > capacity THEN SubSeq(grown, 1, capacity) ELSE grown

\* the log after _add_to_memory: append, then trim
AddToMemory(mem, capacity, question, response, sources, now) ==
    LET grown == Append(mem, NewExchange(mem, question, response, sources, now))
    IN  IF Len(grown) > capacity THEN SliceFrom(grown, 0 - capacity) ELSE grown

\* format_memory as a value: the last five exchanges, question and answer
\* only (the answer cut to its first 100 characters), or the fixed
\* sentence for an empty log
FormatMemory(mem) ==
    IF mem = <<>>
    THEN [text |-> "No previous conversation.", lines |-> <<>>]
    ELSE LET recent == SliceFrom(mem, 0 - HistoryWindow)
         IN  [text |-> "",
              lines |-> [i \in 1 .. Len(recent) |->
                            [Q |-> recent[i].question, A |-> recent[i].response]]]

GetMemorySummary ==
    [total_exchanges |-> Len(memory),
     memory_empty |-> Len(memory) = 0,
     memory_full |-> Len(memory) >= max_memory,
     latest_exchange_time |->
         IF memory # <<>> THEN Some(memory[Len(memory)].timestamp) ELSE None]

GetStatus ==
    [documents_loaded |-> documents_loaded,
     vectorstore_ready |-> vectorstore # None,
     rag_chain_ready |-> rag_chain # None,
     memory_status |-> GetMemorySummary,
     max_memory_length |-> max_memory]

\* ----------------------------------------------------------------- query
\* the retriever returns the k nearest chunks of its index, all of them
\* when the index holds at most k
Retrieve(index) ==
    {[i \in 1 .. Len(hits) |-> index[hits[i]]] :
        hits \in {h \in SeqsUpTo(1 .. Len(index), Min(RetrieverK, Len(index))) :
                     /\ Len(h) = Min(RetrieverK, Len(index))
                     /\ \A i, j \in 1 .. Len(h) : i < j => h[i] # h[j]}}

\* a get_sources that lists the filename of every retrieved chunk
GetSourcesKeepsDuplicates(docs) == {[i \in 1 .. Len(docs) |-> docs[i].filename]}

\* get_sources: list(set(filenames)), in any order
GetSources(docs) == Orderings({docs[i].filename : i \in 1 .. Len(docs)})

Answer(text) == [prefix |-> "", text |-> text]
ErrorMsg(e) == [prefix |-> "Error: ", text |-> e]

\* what self.rag_chain.invoke can do: return a response with sources, or
\* raise (always, when there is no chain to invoke)
InvokeOutcomes ==
    IF rag_chain = None
    THEN {[ok |-> FALSE, response |-> ErrorMsg("NoneType"), sources |-> <<>>]}
    ELSE {[ok |-> TRUE, response |-> Answer(a), sources |-> s] :
              a \in Answers,
              s \in UNION {GetSources(docs) : docs \in Retrieve(rag_chain[1].retriever)}}
         \cup {[ok |-> FALSE, response |-> ErrorMsg(e), sources |-> <<>>] : e \in Errors}

NoDocumentsLoaded == "ValueError: No documents loaded"

\* an except branch that returns the error without recording it
QueryBodyDropsFailure(mem, question, out) ==
    LET after == IF out.ok
                 THEN AddToMemory(mem, max_memory, question, out.response, out.sources, clock)
                 ELSE mem
    IN  [memory |-> after,
         result |-> [response |-> out.response,
                     sources |-> out.sources,
                     num_sources |-> Len(out.sources),
                     memory_length |-> Len(after),
                     success |-> out.ok],
         chat_history |-> IF rag_chain = None THEN None ELSE Some(FormatMemory(mem))]

\* an except branch that returns the error as a success
QueryBodyReportsSuccess(mem, question, out) ==
    LET after == AddToMemory(mem, max_memory, question, out.response, out.sources, clock)
    IN  [memory |-> after,
         result |-> [response |-> out.response,
                     sources |-> out.sources,
                     num_sources |-> Len(out.sources),
                     memory_length |-> Len(after),
                     success |-> TRUE],
         chat_history |-> IF rag_chain = None THEN None ELSE Some(FormatMemory(mem))]

\* the body of query past the readiness check, run on the log mem: the log
\* afterwards and the value returned
QueryBody(mem, question, out) ==
    LET after == AddToMemory(mem, max_memory, question, out.response, out.sources, clock)
    IN  [memory |-> after,
         result |-> [response |-> out.response,
                     sources |-> out.sources,
                     num_sources |-> Len(out.sources),
                     memory_length |-> Len(after),
                     success |-> out.ok],
         chat_history |-> IF rag_chain = None THEN None ELSE Some(FormatMemory(mem))]

\* a query without the readiness check
QueryUnchecked(question, out) ==
    /\ pc = "idle"
    /\ LET q == QueryBody(memory, question, out)
       IN  /\ memory' = q.memory
           /\ ret' = Call("query", "", Some(q.result), q.chat_history)
    /\ clock' = clock + 1
    /\ appended' = Append(appended,
           NewExchange(memory, question, out.response, out.sources, clock))
    /\ UNCHANGED <<vectorstore, rag_chain, documents_loaded, max_memory, pc, local, frames>>

Query(question, out) ==
    /\ pc = "idle"
    /\ IF ~documents_loaded
       THEN /\ ret' = Call("query", NoDocumentsLoaded, None, None)
            /\ UNCHANGED <<memory, clock, appended>>
       ELSE /\ LET q == QueryBody(memory, question, out)
               IN  /\ memory' = q.memory
                   /\ ret' = Call("query", "", Some(q.result), q.chat_history)
            /\ clock' = clock + 1
            /\ appended' = Append(appended,
                   NewExchange(memory, question, out.response, out.sources, clock))
    /\ UNCHANGED <<vectorstore, rag_chain, documents_loaded, max_memory, pc, local, frames>>

\* query_with_memory_context(question, use_memory=False)
QueryWithoutMemory(question, out) ==
    /\ pc = "idle"
    /\ IF ~documents_loaded
       THEN /\ memory' = <<>>
            /\ ret' = Call("query_without_memory", NoDocumentsLoaded, None, None)
            /\ UNCHANGED <<clock, appended>>
       ELSE /\ LET old_memory == memory
                   q == QueryBody(<<>>, question, out)
               IN  /\ memory' = old_memory
                   /\ ret' = Call("query_without_memory", "", Some(q.result),
                                  q.chat_history)
            /\ clock' = clock + 1
            /\ UNCHANGED appended
    /\ UNCHANGED <<vectorstore, rag_chain, documents_loaded, max_memory, pc, local, frames>>

QueryOp ==
    /\ documents_loaded => clock < MaxQueries
    /\ \E question \in Questions, out \in InvokeOutcomes : Query(question, out)

QueryWithoutMemoryOp ==
    /\ documents_loaded => clock < MaxQueries
    /\ \E question \in Questions, out \in InvokeOutcomes : QueryWithoutMemory(question, out)

\* ------------------------------------------------- memory administration
\* a clear that also puts the capacity back to its default
ClearMemoryResetsCapacity ==
    /\ pc = "idle"
    /\ memory' = <<>>
    /\ appended' = <<>>
    /\ max_memory' = DefaultMaxMemory
    /\ ret' = Call("clear", "", None, None)
    /\ UNCHANGED <<vectorstore, rag_chain, documents_loaded, clock, pc, local, frames>>

ClearMemory ==
    /\ pc = "idle"
    /\ memory' = <<>>
    /\ appended' = <<>>
    /\ ret' = Call("clear", "", None, None)
    /\ UNCHANGED <<vectorstore, rag_chain, documents_loaded, max_memory, clock, pc, local, frames>>

\* a set_memory_length that leaves the trim to the next append
SetMemoryLengthTrimsLazily(length) ==
    /\ pc = "idle"
    /\ max_memory' = Max(1, length)
    /\ memory' = memory
    /\ ret' = Call("set_capacity", "", None, None)
    /\ UNCHANGED <<vectorstore, rag_chain, documents_loaded, clock, appended, pc, local, frames>>

SetMemoryLength(length) ==
    /\ pc = "idle"
    /\ max_memory' = Max(1, length)
    /\ memory' = IF Len(memory) > max_memory'
                 THEN SliceFrom(memory, 0 - max_memory') ELSE memory
    /\ ret' = Call("set_capacity", "", None, None)
    /\ UNCHANGED <<vectorstore, rag_chain, documents_loaded, clock, appended, pc, local, frames>>

SetCapacity == \E length \in CapInputs : SetMemoryLength(length)

\* a reset that forgets the memory log
ResetKeepsMemory ==
    /\ pc = "idle"
    /\ vectorstore' = None
    /\ rag_chain' = None
    /\ documents_loaded' = FALSE
    /\ ret' = Call("reset", "", None, None)
    /\ UNCHANGED <<memory, appended, max_memory, clock, pc, local, frames>>

Reset ==
    /\ pc = "idle"
    /\ vectorstore' = None
    /\ rag_chain' = None
    /\ documents_loaded' = FALSE
    /\ memory' = <<>>
    /\ appended' = <<>>
    /\ ret' = Call("reset", "", None, None)
    /\ UNCHANGED <<max_memory, clock, pc, local, frames>>

\* ---------------------------------------------------------- memory reads
\* the arguments tried for n and for limit
ReadInputs == (0 - 1) .. MaxCap

\* the search words tried: one in capitals, one in small letters
SearchQueries == {"Q1", "error"}

\* the characters of the texts of the model
Chars(text) ==
    CASE text = "q1" -> <<"q", "1">>
      [] text = "q2" -> <<"q", "2">>
      [] text = "Q1" -> <<"Q", "1">>
      [] text = "answer" -> <<"a", "n", "s", "w", "e", "r">>
      [] text = "timeout" -> <<"t", "i", "m", "e", "o", "u", "t">>
      [] text = "NoneType" -> <<"N", "o", "n", "e", "T", "y", "p", "e">>
      [] text = "error" -> <<"e", "r", "r", "o", "r">>
      [] text = "Error: " -> <<"E", "r", "r", "o", "r", ":", " ">>
      [] text = "" -> <<>>

\* str.lower()
LowerChar(c) ==
    CASE c = "E" -> "e"
      [] c = "N" -> "n"
      [] c = "Q" -> "q"
      [] c = "T" -> "t"
      [] OTHER -> c

Lower(chars) == [i \in 1 .. Len(chars) |-> LowerChar(chars[i])]

\* needle in hay
Contains(needle, hay) ==
    \E i \in 0 .. Len(hay) - Len(needle) :
        SubSeq(hay, i + 1, i + Len(needle)) = needle

QuestionText(ex) == Chars(ex.question)
ResponseText(ex) == Chars(ex.response.prefix) \o Chars(ex.response.text)

\* the test search_memory applies to one exchange
Matches(query, ex) ==
    LET query_lower == Lower(Chars(query))
    IN  \/ Contains(query_lower, Lower(QuestionText(ex)))
        \/ Contains(query_lower, Lower(ResponseText(ex)))

\* get_memory: a new list of the same exchange objects
GetMemory ==
    /\ pc = "idle"
    /\ ret' = Call("get_all", "", Some(memory), None)
    /\ UNCHANGED <<pipeline, clock, appended, pc, local, frames>>

GetRecentMemory(n) ==
    /\ pc = "idle"
    /\ ret' = Call("get_recent", "",
                   Some(IF memory # <<>> THEN SliceFrom(memory, 0 - n) ELSE <<>>), None)
    /\ UNCHANGED <<pipeline, clock, appended, pc, local, frames>>

SearchMemory(query, limit) ==
    /\ pc = "idle"
    /\ LET Test(ex) == Matches(query, ex)
           results == SelectSeq(memory, Test)
       IN  ret' = Call("search", "",
                       Some(IF memory = <<>> THEN <<>> ELSE SliceFrom(results, 0 - limit)),
                       None)
    /\ UNCHANGED <<pipeline, clock, appended, pc, local, frames>>

GetRecent == \E n \in ReadInputs : GetRecentMemory(n)

Search == \E query \in SearchQueries, limit \in ReadInputs : SearchMemory(query, limit)

\* What the caller of get_memory can do to the list it was given. The list
\* is the caller's own; the exchanges in it are the dictionaries the log
\* holds, and a dictionary is known by the tick it was created at.
CallerAppends ==
    /\ pc = "idle"
    /\ ret.op = "get_all"
    /\ ret' = [ret EXCEPT !.op = "caller_mutation",
                          !.result = Some(Append(@[1], NewExchange(@[1], "q1", Answer("answer"),
                                                                      <<>>, clock)))]
    /\ UNCHANGED <<pipeline, clock, appended, pc, local, frames>>

CallerRemoves ==
    /\ pc = "idle"
    /\ ret.op = "get_all"
    /\ ret.result[1] # <<>>
    /\ ret' = [ret EXCEPT !.op = "caller_mutation", !.result = Some(Tail(@[1]))]
    /\ UNCHANGED <<pipeline, clock, appended, pc, local, frames>>

\* returned[i]["question"] = question
CallerSetsField(i, question) ==
    /\ pc = "idle"
    /\ ret.op = "get_all"
    /\ i \in 1 .. Len(ret.result[1])
    /\ LET object == ret.result[1][i].timestamp
           Written(list) ==
               [j \in 1 .. Len(list) |->
                   IF list[j].timestamp = object
                   THEN [list[j] EXCEPT !.question = question] ELSE list[j]]
       IN  /\ ret' = [ret EXCEPT !.op = "caller_mutation",
                                 !.result = Some(Written(@[1]))]
           /\ memory' = Written(memory)
    /\ UNCHANGED <<vectorstore, rag_chain, documents_loaded, max_memory, clock, appended,
                   pc, local, frames>>

CallerSets ==
    \E i \in 1 .. MaxAppends, question \in Questions : CallerSetsField(i, question)

\* ----------------------------------------------------------- HTTP handlers
\* what a handler sends back: the status, the detail of an HTTPException or
\* the response model
Http(status, detail, body) == [status |-> status, detail |-> detail, body |-> body]

NotLoadedDetail ==
    [prefix |-> "", text |-> "No documents loaded. Please upload and process files first."]
NoFilesDetail == [prefix |-> "", text |-> "No files uploaded"]
UploadErrorDetail(e) == [prefix |-> "Error processing files: ", text |-> e]

\* ChatResponse(...) of a query result
ChatResponse(result) ==
    [response |-> result.response, sources |-> result.sources,
     num_sources |-> result.num_sources, memory_length |-> result.memory_length]

\* POST /upload-files/
UploadFilesHandler(files, build) ==
    /\ pc = "idle"
    /\ LET d == Decode(files, NoLocal)
           chunks == SplitDocuments(d.documents)
       IN  IF files = <<>>
           THEN /\ ret' = Call("upload", "", Some(Http(400, NoFilesDetail, None)), None)
                /\ UNCHANGED pipeline
           ELSE IF d.documents = <<>>
           THEN /\ ret' = Call("upload", "",
                               Some(Http(500, UploadErrorDetail(NoDocumentsProcessed), None)),
                               None)
                /\ UNCHANGED pipeline
           ELSE IF build = "index_raises"
           THEN /\ ret' = Call("upload", "",
                               Some(Http(500, UploadErrorDetail(IndexBuildFailed), None)),
                               None)
                /\ UNCHANGED pipeline
           ELSE /\ vectorstore' = Some(chunks)
                /\ rag_chain' = Some(BuildChain(chunks))
                /\ documents_loaded' = TRUE
                /\ ret' = Call("upload", "",
                               Some(Http(200, None,
                                         Some([processed_files |-> d.processed_files,
                                               total_chunks |-> Len(chunks),
                                               errors |-> d.errors]))),
                               None)
                /\ UNCHANGED <<memory, max_memory>>
    /\ UNCHANGED <<clock, appended, pc, local, frames>>

\* POST /chat/
ChatHandler(message, out) ==
    /\ pc = "idle"
    /\ IF ~documents_loaded
       THEN /\ ret' = Call("chat", "", Some(Http(400, NotLoadedDetail, None)), None)
            /\ UNCHANGED <<memory, clock, appended>>
       ELSE /\ LET q == QueryBody(memory, message, out)
               IN  /\ memory' = q.memory
                   /\ ret' = Call("chat", "",
                                  Some(IF ~q.result.success
                                       THEN Http(500, q.result.response, None)
                                       ELSE Http(200, None, Some(ChatResponse(q.result)))),
                                  q.chat_history)
            /\ clock' = clock + 1
            /\ appended' = Append(appended,
                   NewExchange(memory, message, out.response, out.sources, clock))
    /\ UNCHANGED <<vectorstore, rag_chain, documents_loaded, max_memory, pc, local, frames>>

HttpUpload ==
    \E files \in Batches :
        \E build \in IF SplitDocuments(Decode(files, NoLocal).documents) = <<>>
                      THEN {"index_raises"} ELSE BuildOutcomes :
            UploadFilesHandler(files, build)

HttpChat ==
    /\ documents_loaded => clock < MaxQueries
    /\ \E message \in Questions, out \in InvokeOutcomes : ChatHandler(message, out)

\* --------------------------------------------------------- specification
Init ==
    /\ vectorstore = None
    /\ rag_chain = None
    /\ documents_loaded = FALSE
    /\ memory = <<>>
    /\ max_memory = DefaultMaxMemory
    /\ clock = 0
    /\ appended = <<>>
    /\ ret = NoCall
    /\ pc = "idle"
    /\ local = NoLocal
    /\ frames = [t \in AllThreads |-> NoFrame]

Next ==
    \/ Ingest
    \/ QueryOp
    \/ QueryWithoutMemoryOp
    \/ ClearMemory
    \/ SetCapacity
    \/ Reset

Spec == Init /\ [][Next]_vars

\* the conversation memory on its own: append (through query), set_capacity,
\* clear and reset, with ingest to make the pipeline ready
MemoryIngest == IngestDocuments(<<[filename |-> "a.txt", load |-> "text"]>>, "ok")

MemoryQuery ==
    /\ documents_loaded => clock < MaxAppends
    /\ \E question \in Questions, out \in InvokeOutcomes : Query(question, out)

MemoryNext ==
    \/ MemoryIngest
    \/ MemoryQuery
    \/ ClearMemory
    \/ SetCapacity
    \/ Reset

SpecMemory == Init /\ [][MemoryNext]_vars

\* the conversation: the memory operations and both kinds of query
ChatQueryWithoutMemory ==
    /\ documents_loaded => clock < MaxAppends
    /\ \E question \in Questions, out \in InvokeOutcomes : QueryWithoutMemory(question, out)

ChatNext ==
    \/ MemoryIngest
    \/ MemoryQuery
    \/ ChatQueryWithoutMemory
    \/ ClearMemory
    \/ SetCapacity
    \/ Reset

SpecChat == Init /\ [][ChatNext]_vars

\* the readers of the memory: a conversation, and a caller that reads the
\* log and does what it likes with what it was given
ReadNext ==
    \/ MemoryIngest
    \/ MemoryQuery
    \/ ClearMemory
    \/ GetMemory
    \/ GetRecent
    \/ Search
    \/ CallerAppends
    \/ CallerRemoves
    \/ CallerSets

SpecRead == Init /\ [][ReadNext]_vars

\* the server: uploads, chats, and the handlers that clear and reset
HttpNext ==
    \/ HttpUpload
    \/ HttpChat
    \/ ClearMemory
    \/ Reset

SpecHttp == Init /\ [][HttpNext]_vars

\* ingestion: uploads of every kind, into an empty and into a loaded
\* pipeline, with a query to tell which corpus answers
IngestQuery ==
    /\ memory = <<>>
    /\ documents_loaded => clock < MaxQueries
    /\ \E question \in Questions, out \in InvokeOutcomes : Query(question, out)

IngestNext ==
    \/ IngestAny
    \/ IngestQuery
    \/ Reset

SpecIngest == Init /\ [][IngestNext]_vars

\* source attribution: a corpus of more files than the retriever returns
\* chunks, and a corpus whose two chunks carry the same filename
ManyFiles ==
    [i \in 1 .. RetrieverK + 1 |->
        [filename |-> <<"a.txt", "b.pdf", "c.txt", "d.txt", "e.txt">>[i], load |-> "text"]]

TwinFiles == <<[filename |-> "a.txt", load |-> "text"], [filename |-> "a.txt", load |-> "text"]>>

SourcesIngest == \E files \in {ManyFiles, TwinFiles} : IngestDocuments(files, "ok")

\* the large corpus is asked the first question of a conversation, the
\* small one any question
SourcesQuery ==
    /\ documents_loaded =>
          /\ clock < MaxQueries + 1
          /\ Len(vectorstore[1]) > RetrieverK => memory = <<>>
    /\ \E out \in InvokeOutcomes : Query("q1", out)

SourcesNext ==
    \/ SourcesIngest
    \/ SourcesQuery
    \/ SetCapacity

SpecSources == Init /\ [][SourcesNext]_vars

\* a conversation that goes on over a change of corpus: uploads of one text
\* file, of another, and of a file that cannot be loaded, each with an index
\* build that succeeds or raises, between the questions
ReingestBatches ==
    {<<[filename |-> "a.txt", load |-> "text"]>>,
     <<[filename |-> "b.pdf", load |-> "text"]>>,
     <<[filename |-> "a.txt", load |-> "raises"]>>}

ReingestIngest ==
    \E files \in ReingestBatches, build \in BuildOutcomes : IngestDocuments(files, build)

ReingestQuery ==
    /\ documents_loaded => clock < MaxQueries + 1
    /\ \E question \in Questions, out \in InvokeOutcomes : Query(question, out)

ReingestNext ==
    \/ ReingestIngest
    \/ ReingestQuery
    \/ SetCapacity

SpecReingest == Init /\ [][ReingestNext]_vars

\* ------------------------------------------ ingest and reset, line by line
\* lines 59-100: decode the upload, refuse it when it holds no document,
\* split the documents
IngestBegin(files) ==
    /\ pc = "idle"
    /\ LET d == Decode(files, NoLocal)
       IN  IF d.documents = <<>>
           THEN /\ ret' = Call("ingest", NoDocumentsProcessed, None, None)
                /\ UNCHANGED <<pc, local>>
           ELSE /\ local' = [d EXCEPT !.chunks = SplitDocuments(d.documents)]
                /\ pc' = "ingest_101"
                /\ UNCHANGED ret
    /\ UNCHANGED <<pipeline, clock, appended, frames>>

\* line 101: self.vectorstore = FAISS.from_documents(chunks, self.embeddings)
IngestBuildIndex(build) ==
    /\ pc = "ingest_101"
    /\ IF build = "index_raises"
       THEN /\ ret' = Call("ingest", IndexBuildFailed, None, None)
            /\ pc' = "idle"
            /\ local' = NoLocal
            /\ UNCHANGED vectorstore
       ELSE /\ vectorstore' = Some(local.chunks)
            /\ pc' = "ingest_102"
            /\ UNCHANGED <<ret, local>>
    /\ UNCHANGED <<rag_chain, documents_loaded, memory, max_memory, clock, appended, frames>>

\* line 102: self._build_chain(), over the index self.vectorstore now names
IngestBuildChain ==
    /\ pc = "ingest_102"
    /\ rag_chain' = Some(BuildChain(vectorstore[1]))
    /\ pc' = "ingest_103"
    /\ UNCHANGED <<vectorstore, documents_loaded, memory, max_memory, clock, appended,
                   ret, local, frames>>

\* lines 103-110: self.documents_loaded = True, and the result
IngestSetLoaded ==
    /\ pc = "ingest_103"
    /\ documents_loaded' = TRUE
    /\ ret' = Call("ingest", "", Some(IngestResult(local, local.chunks)), None)
    /\ pc' = "idle"
    /\ local' = NoLocal
    /\ UNCHANGED <<vectorstore, rag_chain, memory, max_memory, clock, appended, frames>>

\* line 242: self.vectorstore = None
ResetIndex ==
    /\ pc = "idle"
    /\ vectorstore' = None
    /\ pc' = "reset_243"
    /\ UNCHANGED <<rag_chain, documents_loaded, memory, max_memory, clock, appended,
                   ret, local, frames>>

\* line 243: self.rag_chain = None
ResetChain ==
    /\ pc = "reset_243"
    /\ rag_chain' = None
    /\ pc' = "reset_244"
    /\ UNCHANGED <<vectorstore, documents_loaded, memory, max_memory, clock, appended,
                   ret, local, frames>>

\* line 244: self.documents_loaded = False
ResetLoaded ==
    /\ pc = "reset_244"
    /\ documents_loaded' = FALSE
    /\ pc' = "reset_245"
    /\ UNCHANGED <<vectorstore, rag_chain, memory, max_memory, clock, appended,
                   ret, local, frames>>

\* line 245: self.memory = []
ResetMemory ==
    /\ pc = "reset_245"
    /\ memory' = <<>>
    /\ appended' = <<>>
    /\ ret' = Call("reset", "", None, None)
    /\ pc' = "idle"
    /\ UNCHANGED <<vectorstore, rag_chain, documents_loaded, max_memory, clock, local, frames>>

StepsIngestBegin == \E files \in Batches : IngestBegin(files)

StepsIngestBuildIndex ==
    \E build \in IF local.chunks = <<>> THEN {"index_raises"} ELSE BuildOutcomes :
        IngestBuildIndex(build)

\* every statement of ingest and of reset is a step of its own; the other
\* operations run between calls
StepsNext ==
    \/ StepsIngestBegin
    \/ StepsIngestBuildIndex
    \/ IngestBuildChain
    \/ IngestSetLoaded
    \/ ResetIndex
    \/ ResetChain
    \/ ResetLoaded
    \/ ResetMemory
    \/ QueryOp
    \/ QueryWithoutMemoryOp
    \/ ClearMemory
    \/ SetCapacity

SpecSteps == Init /\ [][StepsNext]_vars

\* ------------------------------------------------- query, line by line
\* RAGPipeline takes no lock: a query served by one thread runs statement
\* by statement among the statements of an ingest or a reset run by another.
\* lines 141-144: the readiness check
QueryBegin(t, question) ==
    /\ frames[t].pc = "idle"
    /\ IF ~documents_loaded
       THEN /\ ret' = Call("query", NoDocumentsLoaded, None, None)
            /\ UNCHANGED frames
       ELSE /\ frames' = [frames EXCEPT ![t] = Frame("query_147", question, None, None)]
            /\ UNCHANGED ret
    /\ UNCHANGED <<pipeline, clock, appended, pc, local>>

\* line 147: result = self.rag_chain.invoke(question), over the chain and
\* the log that are there now; lines 159-160 when it raises
QueryInvoke(t, out) ==
    /\ frames[t].pc = "query_147"
    /\ frames' = [frames EXCEPT
                     ![t].pc = "query_173",
                     ![t].out = Some(out),
                     ![t].chat_history =
                         IF rag_chain = None THEN None ELSE Some(FormatMemory(memory))]
    /\ UNCHANGED <<pipeline, clock, appended, ret, pc, local>>

\* lines 150 / 161, 173-179: self.memory.append(...), on the list that
\* self.memory names now
QueryAppend(t) ==
    /\ frames[t].pc = "query_173"
    /\ LET f == frames[t]
           ex == NewExchange(memory, f.question, f.out[1].response, f.out[1].sources, clock)
       IN  /\ memory' = Append(memory, ex)
           /\ appended' = Append(appended, ex)
    /\ clock' = clock + 1
    /\ frames' = [frames EXCEPT ![t].pc = "query_182"]
    /\ UNCHANGED <<vectorstore, rag_chain, documents_loaded, max_memory, ret, pc, local>>

\* lines 182-183: the trim
QueryTrim(t) ==
    /\ frames[t].pc = "query_182"
    /\ memory' = IF Len(memory) > max_memory
                 THEN SliceFrom(memory, 0 - max_memory) ELSE memory
    /\ frames' = [frames EXCEPT ![t].pc = "query_152"]
    /\ UNCHANGED <<vectorstore, rag_chain, documents_loaded, max_memory, clock, appended,
                   ret, pc, local>>

\* lines 152-158 / 162-168: the result
QueryReturn(t) ==
    /\ frames[t].pc = "query_152"
    /\ LET f == frames[t]
       IN  ret' = Call("query", "",
                       Some([response |-> f.out[1].response,
                             sources |-> f.out[1].sources,
                             num_sources |-> Len(f.out[1].sources),
                             memory_length |-> Len(memory),
                             success |-> f.out[1].ok]),
                       f.chat_history)
    /\ frames' = [frames EXCEPT ![t] = NoFrame]
    /\ UNCHANGED <<pipeline, clock, appended, pc, local>>

ThreadsQueryBegin ==
    /\ documents_loaded => clock < MaxQueries
    /\ \E t \in Threads, question \in Questions : QueryBegin(t, question)

ThreadsQueryInvoke == \E t \in Threads, out \in InvokeOutcomes : QueryInvoke(t, out)

ThreadsQueryAppend == \E t \in Threads : QueryAppend(t)

ThreadsQueryTrim == \E t \in Threads : QueryTrim(t)

ThreadsQueryReturn == \E t \in Threads : QueryReturn(t)

\* one thread ingests and resets, the others serve queries; every statement
\* is a step and any thread may take the next one
ThreadsNext ==
    \/ StepsIngestBegin
    \/ StepsIngestBuildIndex
    \/ IngestBuildChain
    \/ IngestSetLoaded
    \/ ResetIndex
    \/ ResetChain
    \/ ResetLoaded
    \/ ResetMemory
    \/ ThreadsQueryBegin
    \/ ThreadsQueryInvoke
    \/ ThreadsQueryAppend
    \/ ThreadsQueryTrim
    \/ ThreadsQueryReturn
    \/ SetCapacity

SpecThreads == Init /\ [][ThreadsNext]_vars

\* --------------------------- query_with_memory_context, line by line
\* lines 222-225, use_memory false: old_memory = self.memory, then
\* self.memory = []. old_memory names the list self.memory named, with no
\* copy; the two statements are taken together, so that no other thread holds
\* the saved list when it is set aside
NoMemoryBegin(t, question) ==
    /\ frames[t].pc = "idle"
    /\ frames' = [frames EXCEPT ![t] = NoMemoryFrame("query_143", question, memory)]
    /\ memory' = <<>>
    /\ UNCHANGED <<vectorstore, rag_chain, documents_loaded, max_memory, clock, appended,
                   ret, pc, local>>

\* line 226 -> lines 141-144: the readiness check of the query it calls; the
\* ValueError leaves through line 226, and line 227 does not run
NoMemoryCheck(t) ==
    /\ frames[t].pc = "query_143"
    /\ IF ~documents_loaded
       THEN /\ ret' = Call("query_without_memory", NoDocumentsLoaded, None, None)
            /\ frames' = [frames EXCEPT ![t] = NoFrame]
       ELSE /\ frames' = [frames EXCEPT ![t].pc = "query_147"]
            /\ UNCHANGED ret
    /\ UNCHANGED <<pipeline, clock, appended, pc, local>>

\* lines 152-158 / 162-168 -> line 226: result = self.query(question), with
\* the length of the list self.memory names now
NoMemoryResult(t) ==
    /\ frames[t].pc = "query_152"
    /\ LET f == frames[t]
       IN  frames' = [frames EXCEPT
                         ![t].pc = "nomem_227",
                         ![t].result = Some([response |-> f.out[1].response,
                                             sources |-> f.out[1].sources,
                                             num_sources |-> Len(f.out[1].sources),
                                             memory_length |-> Len(memory),
                                             success |-> f.out[1].ok])]
    /\ UNCHANGED <<pipeline, clock, appended, ret, pc, local>>

\* lines 227-228: self.memory = old_memory; return result
NoMemoryRestore(t) ==
    /\ frames[t].pc = "nomem_227"
    /\ memory' = frames[t].old_memory
    /\ ret' = Call("query_without_memory", "", frames[t].result, frames[t].chat_history)
    /\ frames' = [frames EXCEPT ![t] = NoFrame]
    /\ UNCHANGED <<vectorstore, rag_chain, documents_loaded, max_memory, clock, appended,
                   pc, local>>

\* the serving thread asks q1 and the thread of the no-memory call asks q2
ReentrantQueryBegin ==
    /\ documents_loaded => clock < MaxQueries
    /\ \E t \in Threads : QueryBegin(t, "q1")

ReentrantNoMemoryBegin ==
    /\ documents_loaded => clock < MaxQueries
    /\ NoMemoryBegin(NoMemoryThread, "q2")

ReentrantNoMemoryCheck == NoMemoryCheck(NoMemoryThread)

ReentrantQueryInvoke == \E t \in AllThreads, out \in InvokeOutcomes : QueryInvoke(t, out)

ReentrantQueryAppend == \E t \in AllThreads : QueryAppend(t)

ReentrantQueryTrim == \E t \in AllThreads : QueryTrim(t)

ReentrantNoMemoryResult == NoMemoryResult(NoMemoryThread)

ReentrantNoMemoryRestore == NoMemoryRestore(NoMemoryThread)

\* a query and a no-memory query, each in its own thread, over a pipeline
\* that is loaded once; every statement is a step and either thread may take
\* the next one
ReentrantNext ==
    \/ MemoryIngest
    \/ SetCapacity
    \/ ReentrantQueryBegin
    \/ ReentrantNoMemoryBegin
    \/ ReentrantNoMemoryCheck
    \/ ReentrantQueryInvoke
    \/ ReentrantQueryAppend
    \/ ReentrantQueryTrim
    \/ ThreadsQueryReturn
    \/ ReentrantNoMemoryResult
    \/ ReentrantNoMemoryRestore

SpecReentrant == Init /\ [][ReentrantNext]_vars

TypeOK ==
    /\ documents_loaded \in BOOLEAN
    /\ max_memory \in 1 .. DefaultMaxMemory
    /\ clock \in 0 .. Max(MaxAppends, MaxQueries)
    /\ Len(memory) <= clock
    /\ pc \in {"idle", "ingest_101", "ingest_102", "ingest_103",
               "reset_243", "reset_244", "reset_245"}

\* ------------------------------------------------------------------ claims
IsSuffix(s, t) ==
    /\ Len(s) <= Len(t)
    /\ s = SubSeq(t, Len(t) - Len(s) + 1, Len(t))

\* C1: the log never holds more than max_memory exchanges, and what it holds
\* is the most recent part, in order, of what was appended to it.
C1_BoundedSuffix ==
    /\ Len(memory) <= max_memory
    /\ IsSuffix(memory, appended)

\* an append has pushed out the oldest of a full log of two
C1_Witness ==
    /\ ret.op = "query"
    /\ Len(memory) = max_memory
    /\ Len(memory) = 2
    /\ Len(appended) > Len(memory)

\* C2: exchange ids count the appends of the run: the k-th exchange
\* appended since the last clear or reset has id k, trimmed log or not.
C2_IdIsAppendCount ==
    \A k \in 1 .. Len(appended) : appended[k].exchange_id = k

\* C3: the ids of the exchanges in the log strictly increase in log order.
C3_IdsStrictlyIncrease ==
    \A i, j \in 1 .. Len(memory) :
        i < j => memory[i].exchange_id < memory[j].exchange_id

\* C4: a query in LOADED leaves the log as it was, plus exactly one new
\* exchange carrying the question at the end, cut to max_memory from the
\* front, whether the chain answered or raised.
C4_QueryAppendsOne ==
    [][(documents_loaded /\ ret'.op = "query") =>
       \A question \in Questions : \A out \in InvokeOutcomes :
          Query(question, out) =>
              LET n == Len(memory')
              IN  /\ n = Min(Len(memory) + 1, max_memory)
                  /\ memory'[n].question = question
                  /\ memory'[n].response = out.response
                  /\ memory'[n].timestamp = clock
                  /\ SubSeq(memory', 1, n - 1) = SliceFrom(memory, Len(memory) - (n - 1))
                  /\ \A i \in 1 .. n - 1 : memory'[i].timestamp # clock]_vars

\* a query whose chain raised has appended to a full log
C4_Witness ==
    /\ ret.op = "query"
    /\ ret.result # None
    /\ ~ret.result[1].success
    /\ Len(memory) = max_memory
    /\ Len(appended) > Len(memory)

\* C5: a query without memory in LOADED gives the chain an empty history,
\* and afterwards the log holds what it held plus one new exchange for the
\* question, cut to max_memory from the front.
C5_NoMemoryQueryIsRecorded ==
    [][(documents_loaded /\ ret'.op = "query_without_memory") =>
       \A question \in Questions : \A out \in InvokeOutcomes :
          QueryWithoutMemory(question, out) =>
              LET n == Len(memory')
              IN  /\ ret'.chat_history = Some(FormatMemory(<<>>))
                  /\ n = Min(Len(memory) + 1, max_memory)
                  /\ memory'[n].question = question
                  /\ memory'[n].timestamp = clock
                  /\ SubSeq(memory', 1, n - 1) = SliceFrom(memory, Len(memory) - (n - 1))]_vars

\* C6: a query of either kind in EMPTY raises the not-ready error, returns
\* nothing, records no exchange and changes nothing of the pipeline.
C6_QueryWhenEmptyFails ==
    [][(~documents_loaded /\ ret'.op \in {"query", "query_without_memory"}) =>
          /\ ret'.raised = NoDocumentsLoaded
          /\ ret'.result = None
          /\ appended' = appended
          /\ UNCHANGED pipeline]_vars

\* a query without memory was refused after a reset that followed a
\* conversation
C6_Witness ==
    /\ ~documents_loaded
    /\ ret.op = "query_without_memory"
    /\ ret.raised = NoDocumentsLoaded
    /\ clock > 0

\* C7: when the chain raises during a query in LOADED, query raises nothing
\* and returns success = false, the error text as response, no sources; the
\* exchange appended carries the same response and no sources; the index,
\* the chain and documents_loaded stay as they were.
C7_FailedGenerationIsAnswered ==
    [][(documents_loaded /\ ret'.op = "query") =>
       \A question \in Questions : \A out \in InvokeOutcomes :
          (~out.ok /\ Query(question, out)) =>
              LET r == ret'.result[1]
                  last == memory'[Len(memory')]
              IN  /\ ret'.raised = ""
                  /\ r.success = FALSE
                  /\ r.response.prefix = "Error: "
                  /\ r.response.text \in Errors
                  /\ r.sources = <<>>
                  /\ r.num_sources = 0
                  /\ last.question = question
                  /\ last.response = r.response
                  /\ last.sources = <<>>
                  /\ documents_loaded'
                  /\ UNCHANGED <<vectorstore, rag_chain>>]_vars

\* a query has answered with the error of its chain while exchanges of
\* earlier queries are in the log
C7_Witness ==
    /\ documents_loaded
    /\ ret.op = "query"
    /\ ret.result # None
    /\ ret.result[1].response.prefix = "Error: "
    /\ Len(memory) >= 2
    /\ memory[1].response.prefix = ""

\* the uploads that yield no document: no file, or only files that fail
EmptyBatches == {files \in Batches : Decode(files, NoLocal).documents = <<>>}

\* C8: an ingest whose upload yields no document raises the ingestion error
\* and leaves the index, the chain, documents_loaded, the log and
\* max_memory as they were, in EMPTY and in LOADED.

C8_EmptyBatchChangesNothing ==
    [][ret'.op = "ingest" =>
       \A files \in EmptyBatches :
          (\E build \in BuildOutcomes : IngestDocuments(files, build)) =>
              /\ ret'.raised = NoDocumentsProcessed
              /\ ret'.result = None
              /\ UNCHANGED pipeline]_vars

\* an empty upload was refused while a corpus and an exchange were held
C8_Witness ==
    /\ ret.op = "ingest"
    /\ ret.raised = NoDocumentsProcessed
    /\ documents_loaded
    /\ vectorstore # None
    /\ memory # <<>>

\* C9: whenever documents_loaded is true, in the states between the
\* statements of ingest and reset too, there is an index and a chain, and
\* the chain retrieves from that index.
C9_LoadedMeansIndexAndChain ==
    documents_loaded =>
        /\ vectorstore # None
        /\ rag_chain # None
        /\ rag_chain[1].retriever = vectorstore[1]

\* C10: after reset the status reports nothing loaded, no index, no chain
\* and an empty memory; max_memory is what it was; a reset that follows a
\* reset changes nothing.
C10_ResetYieldsEmpty ==
    [][ret'.op = "reset" =>
          /\ GetStatus'.documents_loaded = FALSE
          /\ GetStatus'.vectorstore_ready = FALSE
          /\ GetStatus'.rag_chain_ready = FALSE
          /\ GetStatus'.memory_status.total_exchanges = 0
          /\ GetStatus'.memory_status.memory_empty = TRUE
          /\ GetStatus'.max_memory_length = max_memory
          /\ (ret.op = "reset" => UNCHANGED pipeline)]_vars

\* a reset has emptied a pipeline whose capacity had been set and that had
\* answered queries
C10_Witness ==
    /\ ret.op = "reset"
    /\ GetStatus.max_memory_length = 1
    /\ clock > 0

\* C11: set_capacity(n) sets max_memory to max(1, n), so max_memory is at
\* least 1 in every state; a log longer than the new capacity is cut at once
\* to its most recent max_memory exchanges, in order; a log that is not
\* longer is unchanged.
C11_SetCapacityTrimsAtOnce ==
    /\ max_memory >= 1
    /\ [][/\ max_memory' >= 1
          /\ ret'.op = "set_capacity" =>
                \A length \in CapInputs :
                   SetMemoryLength(length) =>
                       /\ max_memory' = (IF length < 1 THEN 1 ELSE length)
                       /\ IF Len(memory) > max_memory'
                          THEN /\ Len(memory') = max_memory'
                               /\ \A i \in 1 .. max_memory' :
                                     memory'[i] = memory[Len(memory) - max_memory' + i]
                          ELSE memory' = memory]_vars

\* set_capacity(2) has cut a log of four exchanges, kept whole until then,
\* to its last two
C11_Witness ==
    /\ ret.op = "set_capacity"
    /\ max_memory = 2
    /\ Len(memory) = 2
    /\ memory[1].exchange_id = 3
    /\ memory[2].exchange_id = 4

\* C12: get_recent(n) returns the last min(n, len) exchanges of the log in
\* log order, and the empty sequence for n <= 0 or an empty log; the log is
\* not changed.
C12_GetRecentReturnsTail ==
    [][ret'.op = "get_recent" =>
       \A n \in ReadInputs :
          GetRecentMemory(n) =>
              /\ ret'.result[1] =
                     (IF n <= 0 \/ memory = <<>> THEN <<>>
                      ELSE SubSeq(memory, Len(memory) - Min(n, Len(memory)) + 1, Len(memory)))
              /\ memory' = memory]_vars

\* C13: search(q, limit) returns only exchanges whose question or response
\* contains q whatever the case of the letters, in log order, at most limit
\* of them (none for a limit of 0 or less), and they are the last ones of
\* the log that qualify.
C13_SearchReturnsLastMatches ==
    [][ret'.op = "search" =>
       \A query \in SearchQueries : \A limit \in ReadInputs :
          SearchMemory(query, limit) =>
              LET found == ret'.result[1]
                  hits == {i \in 1 .. Len(memory) : Matches(query, memory[i])}
                  kept == {i \in hits : Cardinality({j \in hits : j >= i}) <= limit}
              IN  /\ Len(found) <= Max(limit, 0)
                  /\ Len(found) = Cardinality(kept)
                  /\ \A k \in 1 .. Len(found) :
                        \E i \in kept :
                           /\ found[k] = memory[i]
                           /\ Cardinality({j \in kept : j <= i}) = k]_vars

\* C14: nothing the caller of get_all does to the value it was given (adding
\* an entry, removing one, writing a field of an exchange) changes the log.
C14_GetAllIsSnapshot ==
    [][ret'.op = "caller_mutation" => memory' = memory]_vars

\* C15: a chat request is refused with a client error only while nothing is
\* loaded; while documents are loaded it is answered in the success class,
\* also when generation failed, and the body then carries the failed answer
\* that was recorded.
C15_FailedAnswerIsHttpSuccess ==
    [][ret'.op = "chat" =>
          LET sent == ret'.result[1]
          IN  IF ~documents_loaded
              THEN sent.status = 400
              ELSE /\ sent.status = 200
                   /\ sent.body # None
                   /\ sent.body[1].response = memory'[Len(memory')].response]_vars

\* an ingest or a reset is between its first and its last access to the
\* state of the pipeline
InMutation == pc \in {"ingest_102", "ingest_103", "reset_243", "reset_244", "reset_245"}

QueryInFlight == \E t \in Threads : frames[t].pc # "idle"

\* C16: ingest and reset exclude the queries in flight: no query is in
\* flight while an ingest or a reset is between its first and last access to
\* the state, no statement of a query runs then, and the log a reset has
\* cleared is still empty when every call has returned.
C16_MutationsExcludeQueries ==
    /\ [](~(InMutation /\ QueryInFlight))
    /\ [][InMutation => frames' = frames]_vars
    /\ []((pc = "idle" /\ ~QueryInFlight /\ ~documents_loaded) => memory = <<>>)

\* the files of an upload that load, and those that do not, in upload order
Loads(file) == file.load # "raises"
Fails(file) == file.load = "raises"

\* one chunk for every file that holds text
HoldsText(file) == file.load = "text"
ChunksOfFiles(files) ==
    LET texts == SelectSeq(files, HoldsText)
    IN  [i \in 1 .. Len(texts) |-> [filename |-> texts[i].filename]]

\* C17: a successful ingest leaves documents_loaded true, and the index and
\* the retriever of the chain hold exactly the chunks of the files of this
\* upload, whatever index was there before.
C17_IngestReplacesIndex ==
    [][(ret'.op = "ingest" /\ ret'.raised = "") =>
          /\ documents_loaded'
          /\ vectorstore' # None
          /\ rag_chain' # None
          /\ rag_chain'[1].retriever = vectorstore'[1]
          /\ Len(vectorstore'[1]) = ret'.result[1].total_chunks
          /\ \A files \in IngestBatches :
                IngestDocuments(files, "ok") => vectorstore'[1] = ChunksOfFiles(files)]_vars

\* a corpus of b.pdf alone is live after a question was answered from a.txt
C17_Witness ==
    /\ ret.op = "ingest"
    /\ ret.raised = ""
    /\ vectorstore = Some(<<[filename |-> "b.pdf"]>>)
    /\ memory # <<>>
    /\ memory[1].sources = <<"a.txt">>

\* what C18 says of the outcome of ingest(files): every file is in exactly
\* one of processed_files and errors, in upload order, and the chunks of
\* every file that loaded are in the index
PartitionsUpload(files, result) ==
    LET loaded == SelectSeq(files, Loads)
        failed == SelectSeq(files, Fails)
    IN  /\ Len(result.processed_files) + Len(result.errors) = Len(files)
        /\ result.processed_files = [i \in 1 .. Len(loaded) |-> loaded[i].filename]
        /\ Len(result.errors) = Len(failed)
        /\ \A i \in 1 .. Len(failed) : result.errors[i].filename = failed[i].filename
        /\ result.success

\* the uploads in which at least one file yields a document
LoadingBatches == {files \in IngestBatches : SelectSeq(files, Loads) # <<>>}

\* C18 as claimed: a file that fails to load is recorded in errors and does
\* not abort the upload; every file is in exactly one of processed_files
\* and errors, in order; the documents of the files that loaded are indexed;
\* the call succeeds whenever at least one file yields a document.
C18_OneDocumentSuffices ==
    [][ret'.op = "ingest" =>
       \A files \in LoadingBatches : \A build \in BuildOutcomes :
          IngestDocuments(files, build) =>
              /\ ret'.raised = ""
              /\ PartitionsUpload(files, ret'.result[1])
              /\ vectorstore' = Some(ChunksOfFiles(files))]_vars

\* C18 as amended: the same, and the call succeeds whenever at least one
\* file yields a document and the index can be built over the chunks; when
\* the index cannot be built the call raises and changes nothing.
C18_DecodeFailureIsRecorded ==
    [][ret'.op = "ingest" =>
       \A files \in LoadingBatches : \A build \in BuildOutcomes :
          IngestDocuments(files, build) =>
              IF build = "ok" /\ ChunksOfFiles(files) # <<>>
              THEN /\ ret'.raised = ""
                   /\ PartitionsUpload(files, ret'.result[1])
                   /\ vectorstore' = Some(ChunksOfFiles(files))
              ELSE /\ ret'.raised = IndexBuildFailed
                   /\ UNCHANGED pipeline]_vars

\* an upload whose first file could not be loaded has succeeded with the
\* second
C18_Witness ==
    /\ ret.op = "ingest"
    /\ ret.raised = ""
    /\ Len(ret.result[1].errors) = 1
    /\ ret.result[1].processed_files = <<"b.pdf">>
    /\ vectorstore = Some(<<[filename |-> "b.pdf"]>>)

\* C19: clear empties the log and leaves the index, the chain,
\* documents_loaded and max_memory as they were; the first exchange appended
\* after a clear has id 1.
C19_ClearEmptiesLogOnly ==
    [][/\ ret'.op = "clear" =>
             /\ memory' = <<>>
             /\ UNCHANGED <<vectorstore, rag_chain, documents_loaded, max_memory>>
       /\ (ret.op = "clear" /\ ret'.op = "query" /\ documents_loaded) =>
             /\ Len(memory') = 1
             /\ memory'[1].exchange_id = 1
       /\ (appended = <<>> /\ ret'.op = "query" /\ documents_loaded) =>
             memory'[Len(memory')].exchange_id = 1]_vars

\* a log that held exchanges was emptied and the next exchange, the third
\* of the conversation, has id 1 again; the capacity set before is kept
C19_Witness ==
    /\ ret.op = "query"
    /\ documents_loaded
    /\ max_memory = 2
    /\ Len(appended) = 1
    /\ memory[1].exchange_id = 1
    /\ memory[1].timestamp = 2

\* C20: a successful query returns sources without a repeated filename, all
\* of them filenames of the index, num_sources is their number and at most
\* k; the exchange appended holds the same list; memory_length is the
\* length of the log after the append, between 1 and max_memory.
C20_SourcesAreASet ==
    [][(documents_loaded /\ ret'.op = "query" /\ ret'.result[1].success) =>
          LET r == ret'.result[1]
              last == memory'[Len(memory')]
              index == rag_chain[1].retriever
          IN  /\ \A i, j \in 1 .. Len(r.sources) : i # j => r.sources[i] # r.sources[j]
              /\ \A i \in 1 .. Len(r.sources) :
                    \E c \in 1 .. Len(index) : index[c].filename = r.sources[i]
              /\ r.num_sources = Len(r.sources)
              /\ r.num_sources <= RetrieverK
              /\ last.sources = r.sources
              /\ r.memory_length = Len(memory')
              /\ 1 <= r.memory_length
              /\ r.memory_length <= max_memory]_vars

\* the two chunks retrieved share a filename, which is listed once, and the
\* append pushed an older exchange out of a log of capacity 1
C20_Witness ==
    /\ ret.op = "query"
    /\ ret.result # None
    /\ ret.result[1].success
    /\ Len(vectorstore[1]) = 2
    /\ ret.result[1].sources = <<"a.txt">>
    /\ ret.result[1].memory_length = 1
    /\ Len(appended) >= 2

\* C21: the memory_length a query without memory returns is the length of
\* the real log after the call: the length before plus one, capped at
\* max_memory, and not the length of the empty log the call ran on.
C21_NoMemoryQueryReportsRealLength ==
    [][(documents_loaded /\ ret'.op = "query_without_memory") =>
          /\ ret'.result[1].memory_length = Min(Len(memory) + 1, max_memory)
          /\ ret'.result[1].memory_length = Len(memory')]_vars

\* C22: when a query and a no-memory query run with their statements
\* interleaved, each adds one entry to the real log and nothing recorded is
\* lost: where the no-memory call puts the saved log back while the list it
\* set up holds an exchange of the other call, that exchange, its own and
\* every saved one are in the log afterwards (the log has room for them all).
C22_RestoreKeepsEveryExchange ==
    [][(/\ frames[NoMemoryThread].pc = "nomem_227"
        /\ frames'[NoMemoryThread].pc = "idle"
        /\ \E i \in 1 .. Len(memory) : memory[i].question = "q1"
        /\ Len(frames[NoMemoryThread].old_memory) + Len(memory) <= max_memory) =>
          /\ \A i \in 1 .. Len(memory) : memory[i] \in Range(memory')
          /\ Range(frames[NoMemoryThread].old_memory) \subseteq Range(memory')
          /\ Len(memory') = Len(frames[NoMemoryThread].old_memory) + Len(memory)]_vars

\* C23: run one call at a time, a pipeline with no documents loaded has an
\* empty memory log, whatever ingests, queries of either kind, clears,
\* capacity changes and resets came before: exchanges exist only in LOADED.
C23_EmptyPipelineHasNoMemory == ~documents_loaded => memory = <<>>

\* an ingest has failed on a pipeline that a reset had emptied after it had
\* answered a query
C23_Witness ==
    /\ ~documents_loaded
    /\ ret.op = "ingest"
    /\ ret.raised # ""
    /\ clock > 0
    /\ memory = <<>>

\* C24: an ingest, whether it succeeds or raises, leaves the memory log and
\* max_memory as they were, so a re-ingest keeps every exchange with its id
\* and its place; and the history a later query hands to the prompt is made
\* of the log it finds, exchanges recorded against an earlier corpus included.
C24_IngestLeavesMemory ==
    /\ [][ret'.op = "ingest" => UNCHANGED <<memory, max_memory>>]_vars
    /\ [][(documents_loaded /\ ret'.op = "query") =>
             ret'.chat_history = Some(FormatMemory(memory))]_vars

\* a question was answered over b.pdf with, as its history, the exchange
\* recorded when the corpus was a.txt, which is still first in the log
C24_Witness ==
    /\ ret.op = "query"
    /\ vectorstore = Some(<<[filename |-> "b.pdf"]>>)
    /\ Len(memory) = 2
    /\ memory[1].exchange_id = 1
    /\ memory[1].sources = <<"a.txt">>
    /\ ret.chat_history = Some(FormatMemory(<<memory[1]>>))

====
